---- MODULE Spec2Model ----
(***************************************************************************)
(* GithubArchiveUpdater (github_archive_updater.py): construction from a   *)
(* metadata-recorded URL, get_latest_version(), get_current_version() and  *)
(* update().  Python strings are sequences of one-character strings, so    *)
(* that the regular expression, str.format and the suffix tests are        *)
(* computed character by character.  Python's None is the empty sequence   *)
(* where a string or a record is optional.                                 *)
(***************************************************************************)
EXTENDS Integers, Sequences, FiniteSets, TLC

VARIABLES
    state,          \* "new" before __init__, "ready" after it, "failed" when it raised
    url,            \* the url argument of __init__
    metadata,       \* the caller's MetaData object, which self.metadata refers to
    supplied,       \* history: the value of that object when it was supplied
    old_url,        \* self.old_url
    owner,          \* self.owner
    repo,           \* self.repo
    data,           \* self.data
    lastCall,       \* the method that ran last
    result,         \* how it ended: [raised |-> error or "none", value |-> returned string]
    latest_url,     \* update()'s local latest_url in the last update() call
    log,            \* the collaborator calls the last update() call made, in order
    written,        \* the record the last update() call handed to fileutils.write_metadata
    tmpDir,         \* the temporary directory of the last update() call, <<>> when absent
    projDir,        \* the directory at proj_path: its tree and its METADATA
    urlTempfiles,   \* urllib.request's process-wide list of temporary downloads
    everCached,     \* history: some get_latest_version() call has stored a payload
    everSucceeded   \* history: some get_latest_version() call has returned

vars == <<state, url, metadata, supplied, old_url, owner, repo, data, lastCall,
          result, latest_url, log, written, tmpDir, projDir, urlTempfiles,
          everCached, everSucceeded>>

----------------------------------------------------------------------------
(* Bounds *)

MaxUrls == 2

MaxAssets == 2

----------------------------------------------------------------------------
(* Strings *)

None == <<>>

S_https_github == <<"h", "t", "t", "p", "s", ":", "/", "/", "g", "i", "t", "h", "u", "b">>

S_com_slash == <<"c", "o", "m", "/">>

S_releases_download == <<"r", "e", "l", "e", "a", "s", "e", "s", "/", "d", "o", "w", "n", "l", "o", "a", "d", "/">>

S_archive == <<"a", "r", "c", "h", "i", "v", "e", "/">>

S_tar_gz == <<".", "t", "a", "r", ".", "g", "z">>

S_tgz == <<".", "t", "g", "z">>

S_zip == <<".", "z", "i", "p">>

S_None == <<"N", "o", "n", "e">>

S_github_com == S_https_github \o <<".">> \o S_com_slash

WordChars ==
    {"a", "b", "c", "d", "e", "f", "g", "h", "i", "j", "k", "l", "m", "n", "o", "p",
     "q", "r", "s", "t", "u", "v", "w", "x", "y", "z", "A", "B", "C", "D", "E", "F",
     "G", "H", "I", "J", "K", "L", "M", "N", "O", "P", "Q", "R", "S", "T", "U", "V",
     "W", "X", "Y", "Z", "0", "1", "2", "3", "4", "5", "6", "7", "8", "9", "_"}

\* s has the literal lit at position pos
LitAt(s, pos, lit) ==
    /\ pos + Len(lit) - 1 <= Len(s)
    /\ \A i \in 1..Len(lit) : s[pos + i - 1] = lit[i]

\* s[from..to]
Slice(s, from, to) == [i \in 1..(to - from + 1) |-> s[from + i - 1]]

EndsWith(s, suffix) ==
    /\ Len(suffix) <= Len(s)
    /\ LitAt(s, Len(s) - Len(suffix) + 1, suffix)

----------------------------------------------------------------------------
(* GITHUB_URL_RE *)

\* the character class [-\w]
InClass(c) == c = "-" \/ c \in WordChars

\* [-\w]+ is greedy: the first position at or after pos that is outside the class
RECURSIVE ClassRunEnd(_, _)
ClassRunEnd(s, pos) ==
    IF pos <= Len(s) /\ InClass(s[pos]) THEN ClassRunEnd(s, pos + 1) ELSE pos

\* the pattern's host part: the '.' of github.com is unescaped and matches any character
HostAt(s) ==
    /\ LitAt(s, 1, S_https_github)
    /\ Len(s) >= Len(S_https_github) + 1
    /\ s[Len(S_https_github) + 1] /= "\n"
    /\ LitAt(s, Len(S_https_github) + 2, S_com_slash)

\* GITHUB_URL_RE.match(value): <<>> for no match, else <<group 1, group 2>>
GITHUB_URL_RE_match(value) ==
    LET o1 == Len(S_github_com) + 1
        o2 == ClassRunEnd(value, o1)
        r1 == o2 + 1
        r2 == ClassRunEnd(value, r1)
    IN  IF /\ HostAt(value)
           /\ o2 > o1
           /\ LitAt(value, o2, <<"/">>)
           /\ r2 > r1
           /\ LitAt(value, r2, <<"/">>)
           /\ \/ LitAt(value, r2 + 1, S_releases_download)
              \/ LitAt(value, r2 + 1, S_archive)
        THEN <<Slice(value, o1, o2 - 1), Slice(value, r1, r2 - 1)>>
        ELSE <<>>

----------------------------------------------------------------------------
(* Inputs of __init__ *)

ARCHIVE == "ARCHIVE"

GIT == "GIT"

UrlTypes == {ARCHIVE, GIT}

U_archive == S_github_com \o <<"o", "/", "r", "/">> \o S_archive \o <<"1">> \o S_tar_gz

U_release ==
    S_github_com \o <<"o", "-", "1", "/", "r", "_", "2", "/">> \o S_releases_download
        \o <<"1", "/", "a">> \o S_zip

U_anyhost ==
    S_https_github \o <<"X">> \o S_com_slash \o <<"o", "/", "r", "/">> \o S_archive
        \o <<"1">> \o S_tar_gz

U_http ==
    <<"h", "t", "t", "p", ":", "/", "/", "g", "i", "t", "h", "u", "b", ".">> \o S_com_slash
        \o <<"o", "/", "r", "/">> \o S_archive \o <<"1">> \o S_tar_gz

U_tag ==
    S_github_com \o <<"o", "/", "r", "/", "r", "e", "l", "e", "a", "s", "e", "s", "/",
                      "t", "a", "g", "/", "1">>

U_dotowner ==
    S_github_com \o <<"o", ".", "x", "/", "r", "/">> \o S_archive \o <<"1">> \o S_tar_gz

U_noowner == S_github_com \o <<"/", "r", "/">> \o S_archive \o <<"1">> \o S_tar_gz

U_short == S_github_com \o <<"o", "/", "r">>

UrlValues ==
    {U_archive, U_release, U_anyhost, U_http, U_tag, U_dotowner, U_noowner, U_short}

Urls == [type : UrlTypes, value : UrlValues]

V_1_0 == <<"1", ".", "0">>

\* the entries a METADATA file may record next to u: u again, u's value under the
\* other type, and another archive
Neighbours(u) ==
    {u,
     [type |-> IF u.type = ARCHIVE THEN GIT ELSE ARCHIVE, value |-> u.value],
     [type |-> ARCHIVE, value |-> IF u.value = U_release THEN U_archive ELSE U_release]}

\* the url lists of at most n entries that hold u
RECURSIVE UrlLists(_, _)
UrlLists(u, n) ==
    IF n <= 1 THEN {<<u>>}
    ELSE LET shorter == UrlLists(u, n - 1)
         IN  shorter
             \cup {Append(l, e) : l \in {s \in shorter : Len(s) = n - 1}, e \in Neighbours(u)}
             \cup {<<e>> \o l : l \in {s \in shorter : Len(s) = n - 1},
                                e \in Neighbours(u) \ {u}}

MetaData(urls) ==
    [name |-> "pkg", third_party |-> [version |-> V_1_0, url |-> urls]]

\* self.data before any response is stored
NoData == [kind |-> "None", keys |-> {}, tag_name |-> None, assets |-> <<>>]

NoResult == [raised |-> "none", value |-> None]

ProjDir0(md) == [tree |-> None, metadata |-> <<md>>]

InitWith(u, md) ==
    /\ state = "new"
    /\ url = u
    /\ metadata = md
    /\ supplied = md
    /\ old_url = None
    /\ owner = None
    /\ repo = None
    /\ data = NoData
    /\ lastCall = "none"
    /\ result = NoResult
    /\ latest_url = None
    /\ log = <<>>
    /\ written = <<>>
    /\ tmpDir = <<>>
    /\ projDir = ProjDir0(md)
    /\ urlTempfiles = {}
    /\ everCached = FALSE
    /\ everSucceeded = FALSE

----------------------------------------------------------------------------
(* __init__ and _parse_url *)

\* _parse_url(url): the error raised ("none" when it returns) and the identity set
parse_url(u) ==
    LET match == GITHUB_URL_RE_match(u.value)
    IN  IF u.type /= ARCHIVE
        THEN [raised |-> "ValueError: Only archive url from Github is supported.",
              owner |-> None, repo |-> None]
        ELSE IF match = <<>>
        THEN [raised |-> "ValueError: Url format is not supported.",
              owner |-> None, repo |-> None]
        ELSE [raised |-> "none", owner |-> match[1], repo |-> match[2]]

Construct ==
    /\ state = "new"
    /\ LET p == parse_url(url)
       IN  /\ old_url' = url
           /\ owner' = p.owner
           /\ repo' = p.repo
           /\ result' = [raised |-> p.raised, value |-> None]
           /\ state' = IF p.raised = "none" THEN "ready" ELSE "failed"
    /\ data' = NoData
    /\ lastCall' = "__init__"
    /\ UNCHANGED <<url, metadata, supplied, latest_url, log, written, tmpDir, projDir,
                   urlTempfiles, everCached, everSucceeded>>

----------------------------------------------------------------------------
(* The latest-release response *)

T_2 == <<"2">>

A_zip ==
    S_github_com \o <<"o", "/", "r", "/">> \o S_releases_download \o <<"2", "/", "a">> \o S_zip

B_tgz ==
    S_github_com \o <<"o", "/", "r", "/">> \o S_releases_download \o <<"2", "/", "b">> \o S_tgz

C_exe ==
    S_github_com \o <<"o", "/", "r", "/">> \o S_releases_download
        \o <<"2", "/", "c", ".", "e", "x", "e">>

AssetUrls == {A_zip, B_tgz, C_exe}

Sizes == {1, 2}

Assets == [browser_download_url : AssetUrls, size : Sizes]

RECURSIVE SeqsUpTo(_, _)
SeqsUpTo(S, n) ==
    IF n = 0 THEN {<<>>}
    ELSE LET shorter == SeqsUpTo(S, n - 1)
         IN  shorter \cup {Append(l, e) : l \in {s \in shorter : Len(s) = n - 1}, e \in S}

\* a response that is valid JSON but no object
ListData == [kind |-> "list", keys |-> {}, tag_name |-> None, assets |-> <<>>]

\* a JSON object: keys says which of tag_name and assets it holds
DictData(keys, tag, assets) ==
    [kind |-> "dict", keys |-> keys,
     tag_name |-> IF "tag_name" \in keys THEN tag ELSE None,
     assets |-> IF "assets" \in keys THEN assets ELSE <<>>]

Payloads(maxAssets) ==
    {ListData}
    \cup {DictData(k, T_2, a) : k \in SUBSET {"tag_name", "assets"},
                                a \in SeqsUpTo(Assets, maxAssets)}

\* the responses of the specifications that vary something else: a release with no
\* asset, with one supported asset, with an unsupported one, each with and without
\* its tag, a response without assets, and a response that is no object
SomePayloads ==
    {ListData}
    \cup {DictData(k, T_2, a) :
            k \in {{"tag_name", "assets"}, {"assets"}, {"tag_name"}},
            a \in {<<>>,
                   <<[browser_download_url |-> A_zip, size |-> 1]>>,
                   <<[browser_download_url |-> C_exe, size |-> 1]>>}}

FewPayloads ==
    {DictData({"tag_name", "assets"}, T_2, <<>>),
     DictData({"tag_name", "assets"}, T_2, <<[browser_download_url |-> A_zip, size |-> 1]>>),
     DictData({"assets"}, T_2, <<>>)}

----------------------------------------------------------------------------
(* get_latest_version and get_current_version *)

\* self.data[key]: the error a subscript raises, "none" when the key is there
Subscript(d, key) ==
    IF d.kind /= "dict" THEN "TypeError"
    ELSE IF key \notin d.keys THEN "KeyError"
    ELSE "none"

\* get_latest_version() when urlopen, read and json.loads end as `fetch` says:
\* "URLError" and "JSONDecodeError" are raised inside the with statement, before
\* the assignment to self.data
get_latest_version(d, fetch, payload) ==
    IF fetch /= "ok"
    THEN [data |-> d, raised |-> fetch, value |-> None, stored |-> FALSE]
    ELSE [data |-> payload,
          raised |-> Subscript(payload, "tag_name"),
          value |-> IF Subscript(payload, "tag_name") = "none"
                    THEN payload.tag_name ELSE None,
          stored |-> TRUE]

GetLatestVersionOf(fetch, payload) ==
    /\ state = "ready"
    /\ LET r == get_latest_version(data, fetch, payload)
       IN  /\ data' = r.data
           /\ result' = [raised |-> r.raised, value |-> r.value]
           /\ everCached' = (everCached \/ r.stored)
           /\ everSucceeded' = (everSucceeded \/ r.raised = "none")
    /\ lastCall' = "get_latest_version"
    /\ UNCHANGED <<state, url, metadata, supplied, old_url, owner, repo, latest_url,
                   log, written, tmpDir, projDir, urlTempfiles>>

GetLatestVersionFails ==
    \E fetch \in {"URLError", "JSONDecodeError"} : GetLatestVersionOf(fetch, NoData)

GetLatestVersion ==
    \E payload \in SomePayloads : GetLatestVersionOf("ok", payload)

\* the first query of an updater, with any response
QueryAny ==
    /\ lastCall = "__init__"
    /\ \E payload \in Payloads(MaxAssets) : GetLatestVersionOf("ok", payload)

\* the first query of an updater, with one of a few responses
QueryFew ==
    /\ lastCall = "__init__"
    /\ \E payload \in FewPayloads : GetLatestVersionOf("ok", payload)

get_current_version(md) == md.third_party.version

GetCurrentVersion ==
    /\ state = "ready"
    /\ result' = [raised |-> "none", value |-> get_current_version(metadata)]
    /\ lastCall' = "get_current_version"
    /\ UNCHANGED <<state, url, metadata, supplied, old_url, owner, repo, data,
                   latest_url, log, written, tmpDir, projDir, urlTempfiles,
                   everCached, everSucceeded>>

----------------------------------------------------------------------------
(* The collaborators of update(): archive_utils, fileutils, updater_utils *)

\* the paths update() handles
ProjPath == "proj"

TmpPath == "tmp"

TmpRoot == "tmp/root"

NoPath == "None"

\* archive_utils.is_supported_archive(url): by the archive's file extension
is_supported_archive(u) ==
    EndsWith(u, S_tar_gz) \/ EndsWith(u, S_tgz) \/ EndsWith(u, S_zip)

\* archive_utils.download_and_extract(url): the archive is fetched through
\* urllib.request's temporary downloads and extracted into a fresh temporary
\* directory.  "download" fails before the directory exists, "extract" after.
download_and_extract(fs, u, fail) ==
    IF fail = "download"
    THEN [raised |-> "DownloadError", value |-> NoPath, fs |-> fs]
    ELSE LET got == [fs EXCEPT !.urlTempfiles = @ \cup {u},
                               !.tmp = <<[tree |-> u, metadata |-> <<>>]>>]
         IN  IF fail = "extract"
             THEN [raised |-> "ExtractError", value |-> NoPath, fs |-> got]
             ELSE [raised |-> "none", value |-> TmpPath, fs |-> got]

\* archive_utils.find_archive_root(path): the package root inside the extracted tree
find_archive_root(path, fail) ==
    IF fail = "find_archive_root" \/ path /= TmpPath
    THEN [raised |-> "FindRootError", value |-> NoPath]
    ELSE [raised |-> "none", value |-> TmpRoot]

\* fileutils.write_metadata(path, record): the METADATA file of the directory at path
write_metadata(fs, path, record, fail) ==
    IF fail = "write_metadata" \/ path \notin {TmpRoot, ProjPath}
       \/ (path = TmpRoot /\ fs.tmp = <<>>)
    THEN [raised |-> "WriteError", fs |-> fs]
    ELSE IF path = TmpRoot
    THEN [raised |-> "none", fs |-> [fs EXCEPT !.tmp[1].metadata = <<record>>]]
    ELSE [raised |-> "none", fs |-> [fs EXCEPT !.proj.metadata = <<record>>]]

\* updater_utils.replace_package(source_dir, target_dir): the directory at
\* target_dir becomes the contents of source_dir, or is left as it was
replace_package(fs, source, target, fail) ==
    IF fail = "replace_package" \/ source /= TmpRoot \/ target /= ProjPath
       \/ fs.tmp = <<>>
    THEN [raised |-> "ReplaceError", fs |-> fs]
    ELSE [raised |-> "none", fs |-> [fs EXCEPT !.proj = fs.tmp[1]]]

\* shutil.rmtree(path, ignore_errors): path None or a failing removal is an error,
\* which ignore_errors keeps inside rmtree
shutil_rmtree(fs, path, ignore_errors, rmFails) ==
    IF path /= TmpPath \/ rmFails
    THEN [raised |-> IF ignore_errors THEN "none" ELSE "RmtreeError",
          removed |-> FALSE, fs |-> fs]
    ELSE [raised |-> "none", removed |-> TRUE, fs |-> [fs EXCEPT !.tmp = <<>>]]

\* urllib.request.urlcleanup(): unlinks each temporary download, passing over the
\* files it cannot unlink, and empties the list
urlcleanup(fs, unlinkFails) ==
    [raised |-> "none",
     unlinked |-> ~(unlinkFails /\ fs.urlTempfiles /= {}),
     fs |-> [fs EXCEPT !.urlTempfiles = {}]]

----------------------------------------------------------------------------
(* update(): the choice of latest_url *)

supported_assets(d) ==
    SelectSeq(d.assets, LAMBDA a : is_supported_archive(a.browser_download_url))

\* min(assets, key=size) from index i on, best being the index of the least so far:
\* a later asset replaces it only when strictly smaller
RECURSIVE MinIndex(_, _, _)
MinIndex(assets, i, best) ==
    IF i > Len(assets) THEN best
    ELSE MinIndex(assets, i + 1, IF assets[i].size < assets[best].size THEN i ELSE best)

RECURSIVE MinIndexLast(_, _, _)
MinIndexLast(assets, i, best) ==
    IF i > Len(assets) THEN best
    ELSE MinIndexLast(assets, i + 1, IF assets[i].size <= assets[best].size THEN i ELSE best)

\* as minimum_asset, with the last of the least assets
minimum_asset_last(assets) ==
    IF assets = <<>> THEN <<>> ELSE <<assets[MinIndexLast(assets, 2, 1)]>>

\* min(supported_assets, key=size, default=None): <<>> is None
minimum_asset(assets) ==
    IF assets = <<>> THEN <<>> ELSE <<assets[MinIndex(assets, 2, 1)]>>

\* str.format's rendering of self.data.get('tag_name')
FormatTag(d) == IF "tag_name" \in d.keys THEN d.tag_name ELSE S_None

\* as guessed_url, without the archive/ segment
guessed_url_flat(o, r, d) ==
    S_github_com \o o \o <<"/">> \o r \o <<"/">> \o FormatTag(d) \o S_tar_gz

\* 'https://github.com/{}/{}/archive/{}.tar.gz'.format(owner, repo, tag)
guessed_url(o, r, d) ==
    S_github_com \o o \o <<"/">> \o r \o <<"/">> \o S_archive \o FormatTag(d) \o S_tar_gz

\* as select_url, with no payload read as a release without assets
select_url_lenient(self) ==
    IF Subscript(self.data, "assets") /= "none"
    THEN [raised |-> "none", url |-> guessed_url(self.owner, self.repo, self.data)]
    ELSE LET m == minimum_asset(supported_assets(self.data))
         IN  [raised |-> "none",
              url |-> IF m /= <<>> THEN m[1].browser_download_url
                      ELSE guessed_url(self.owner, self.repo, self.data)]

\* lines 89-101: the error raised ("none" when none) and latest_url
select_url(self) ==
    IF Subscript(self.data, "assets") /= "none"
    THEN [raised |-> Subscript(self.data, "assets"), url |-> None]
    ELSE LET m == minimum_asset(supported_assets(self.data))
         IN  [raised |-> "none",
              url |-> IF m /= <<>> THEN m[1].browser_download_url
                      ELSE guessed_url(self.owner, self.repo, self.data)]

----------------------------------------------------------------------------
(* _write_metadata *)

\* as rewritten_urls, matching the entries by their value alone
rewritten_urls_by_value(urls, old, new) ==
    [i \in DOMAIN urls |->
        IF urls[i].value = old.value THEN [urls[i] EXCEPT !.value = new] ELSE urls[i]]

\* lines 78-80: every entry equal to self.old_url as a message gets the new value
rewritten_urls(urls, old, new) ==
    [i \in DOMAIN urls |->
        IF urls[i] = old THEN [urls[i] EXCEPT !.value = new] ELSE urls[i]]

\* lines 75-80: the copy of self.metadata with the version and the urls set
updated_metadata(self, new) ==
    [self.metadata EXCEPT
        !.third_party.version = self.data.tag_name,
        !.third_party.url = rewritten_urls(@, self.old_url, new)]

\* as self_write_metadata, setting the fields of self.metadata itself
self_write_metadata_in_place(env, self, new, path, fail) ==
    IF Subscript(self.data, "tag_name") /= "none"
    THEN [env EXCEPT !.raised = Subscript(self.data, "tag_name")]
    ELSE LET record == updated_metadata(self, new)
             w == write_metadata(env.fs, path, record, fail)
         IN  [env EXCEPT
                 !.metadata = record,
                 !.written = <<record>>,
                 !.log = Append(@, [call |-> "write_metadata", ok |-> w.raised = "none"]),
                 !.raised = w.raised,
                 !.fs = w.fs]

\* _write_metadata(url, path): self.data['tag_name'] raises before anything is
\* written when the key is missing; CopyFrom leaves self.metadata as it was
self_write_metadata(env, self, new, path, fail) ==
    IF Subscript(self.data, "tag_name") /= "none"
    THEN [env EXCEPT !.raised = Subscript(self.data, "tag_name")]
    ELSE LET record == updated_metadata(self, new)
             w == write_metadata(env.fs, path, record, fail)
         IN  [env EXCEPT
                 !.metadata = self.metadata,
                 !.written = <<record>>,
                 !.log = Append(@, [call |-> "write_metadata", ok |-> w.raised = "none"]),
                 !.raised = w.raised,
                 !.fs = w.fs]

----------------------------------------------------------------------------
(* update(): the try block and the finally block *)

\* as TrySteps, with the package replaced before the metadata is written
TryStepsReplaceFirst ==
    <<"download_and_extract", "find_archive_root", "replace_package", "_write_metadata">>

\* lines 105-108, in the order of the statements
TrySteps ==
    <<"download_and_extract", "find_archive_root", "_write_metadata", "replace_package">>

\* as metadata_path, with the project's own METADATA as the target
metadata_path_project(env) == ProjPath

\* line 107: the path _write_metadata is given
metadata_path(env) == env.package_dir

\* one statement of the try block
Step(env, self, name, fail) ==
    IF name = "download_and_extract"
    THEN LET r == download_and_extract(env.fs, env.latest_url, fail)
         IN  [env EXCEPT
                 !.log = Append(@, [call |-> name, ok |-> r.raised = "none"]),
                 !.raised = r.raised,
                 !.fs = r.fs,
                 !.temporary_dir = IF r.raised = "none" THEN r.value ELSE @]
    ELSE IF name = "find_archive_root"
    THEN LET r == find_archive_root(env.temporary_dir, fail)
         IN  [env EXCEPT
                 !.log = Append(@, [call |-> name, ok |-> r.raised = "none"]),
                 !.raised = r.raised,
                 !.package_dir = IF r.raised = "none" THEN r.value ELSE @]
    ELSE IF name = "_write_metadata"
    THEN self_write_metadata(env, self, env.latest_url, metadata_path(env), fail)
    ELSE LET r == replace_package(env.fs, env.package_dir, ProjPath, fail)
         IN  [env EXCEPT
                 !.log = Append(@, [call |-> name, ok |-> r.raised = "none"]),
                 !.raised = r.raised,
                 !.fs = r.fs]

\* the try block from statement i on: an exception ends it
RECURSIVE RunTry(_, _, _, _)
RunTry(env, self, i, fail) ==
    IF i > Len(TrySteps) \/ env.raised /= "none" THEN env
    ELSE RunTry(Step(env, self, TrySteps[i], fail), self, i + 1, fail)

\* as rmtree_call, without ignore_errors
rmtree_call_raising(env, rmFails) ==
    shutil_rmtree(env.fs, env.temporary_dir, FALSE, rmFails)

\* line 110: shutil.rmtree(temporary_dir, ignore_errors=True)
rmtree_call(env, rmFails) ==
    shutil_rmtree(env.fs, env.temporary_dir, TRUE, rmFails)

\* lines 109-111: an exception of the finally block replaces the pending one and
\* ends the block
Finally(env, rmFails, unlinkFails) ==
    LET r == rmtree_call(env, rmFails)
        afterRm == [env EXCEPT
                       !.log = Append(@, [call |-> "rmtree", ok |-> r.removed]),
                       !.fs = r.fs]
        c == urlcleanup(afterRm.fs, unlinkFails)
    IN  IF r.raised /= "none"
        THEN [afterRm EXCEPT !.raised = r.raised]
        ELSE [afterRm EXCEPT
                 !.log = Append(@, [call |-> "urlcleanup", ok |-> c.unlinked]),
                 !.fs = c.fs]

\* as update, cleaning up after the last statement of the try block only
update_cleanup_on_success(self, fs, fail, rmFails, unlinkFails) ==
    LET sel == select_url(self)
        env0 == [raised |-> sel.raised, latest_url |-> sel.url,
                 temporary_dir |-> NoPath, package_dir |-> NoPath,
                 log |-> <<>>, written |-> <<>>, fs |-> fs,
                 metadata |-> self.metadata]
        tried == RunTry(env0, self, 1, fail)
    IN  IF sel.raised /= "none" THEN env0
        ELSE IF tried.raised /= "none" THEN tried
        ELSE Finally(tried, rmFails, unlinkFails)

\* update(): an exception of lines 89-101 leaves before the try statement
update(self, fs, fail, rmFails, unlinkFails) ==
    LET sel == select_url(self)
        env0 == [raised |-> sel.raised, latest_url |-> sel.url,
                 temporary_dir |-> NoPath, package_dir |-> NoPath,
                 log |-> <<>>, written |-> <<>>, fs |-> fs,
                 metadata |-> self.metadata]
    IN  IF sel.raised /= "none" THEN env0
        ELSE Finally(RunTry(env0, self, 1, fail), rmFails, unlinkFails)

Failures ==
    {"none", "download", "extract", "find_archive_root", "write_metadata",
     "replace_package"}

Self ==
    [owner |-> owner, repo |-> repo, data |-> data, metadata |-> metadata,
     old_url |-> old_url]

Fs == [tmp |-> tmpDir, proj |-> projDir, urlTempfiles |-> urlTempfiles]

\* update(): each call gets a fresh temporary directory, so tmpDir tells of this call's
Update ==
    /\ state = "ready"
    /\ \E fail \in Failures, rmFails \in BOOLEAN, unlinkFails \in BOOLEAN :
          LET out == update(Self, [Fs EXCEPT !.tmp = <<>>], fail, rmFails, unlinkFails)
          IN  /\ result' = [raised |-> out.raised, value |-> None]
              /\ latest_url' = out.latest_url
              /\ log' = out.log
              /\ written' = out.written
              /\ metadata' = out.metadata
              /\ tmpDir' = out.fs.tmp
              /\ projDir' = out.fs.proj
              /\ urlTempfiles' = out.fs.urlTempfiles
    /\ lastCall' = "update"
    /\ UNCHANGED <<state, url, supplied, old_url, owner, repo, data, everCached,
                   everSucceeded>>

\* update() right after the query, as the caller's flow has it
UpdateAfterQuery ==
    /\ lastCall = "get_latest_version"
    /\ Update

----------------------------------------------------------------------------
(* Specifications *)

\* the life of an updater: one-entry records, some responses, any order of calls
Init ==
    \E v \in {U_archive, U_release, U_http}, t \in UrlTypes :
        InitWith([type |-> t, value |-> v], MetaData(<<[type |-> t, value |-> v]>>))

Next ==
    \/ Construct
    \/ GetLatestVersion
    \/ GetLatestVersionFails
    \/ GetCurrentVersion
    \/ Update

Spec == Init /\ [][Next]_vars

\* the choice of the archive: construct, query, update, with every response
NextSelect ==
    \/ Construct
    \/ QueryAny
    \/ UpdateAfterQuery

SpecSelect == Init /\ [][NextSelect]_vars

\* construction and the metadata record: construct, query, update, with every url
\* and record
InitRecords ==
    \E u \in Urls : \E l \in UrlLists(u, MaxUrls) : InitWith(u, MetaData(l))

NextRecords ==
    \/ Construct
    \/ QueryFew
    \/ UpdateAfterQuery

SpecRecords == InitRecords /\ [][NextRecords]_vars

----------------------------------------------------------------------------
(* Reading the record of an update() call *)

Called(l, name) == \E i \in DOMAIN l : l[i].call = name

Succeeded(l, name) == \E i \in DOMAIN l : l[i].call = name /\ l[i].ok

Failed(l, name) == \E i \in DOMAIN l : l[i].call = name /\ ~l[i].ok

Updated == lastCall = "update"

\* the calls of the four steps after the choice of the url, in the order of section 4.5
StepCalls ==
    <<"download_and_extract", "find_archive_root", "write_metadata", "replace_package">>

\* the errors each of them raises
StepErrors ==
    <<{"DownloadError", "ExtractError"}, {"FindRootError"}, {"WriteError"},
      {"ReplaceError"}>>

----------------------------------------------------------------------------
(* C1 *)

\* C1 as stated: whenever update() has returned or raised, the temporary
\* directory is gone, the transient download cache is empty and urlcleanup has run.
C1_CleanupAlways ==
    Updated => /\ tmpDir = <<>>
               /\ urlTempfiles = {}
               /\ Called(log, "urlcleanup")

\* C1 amended: when update() got past the choice of the url (it called
\* download_and_extract), then on return, normal or not, rmtree and urlcleanup have
\* run, the transient download cache is empty, and the directory that
\* download_and_extract returned is gone unless its removal failed; when update()
\* raised while choosing the url, no cleanup has run.
C1_CleanupAfterSelection ==
    Updated =>
        /\ Called(log, "download_and_extract") =>
              /\ Called(log, "rmtree")
              /\ Called(log, "urlcleanup")
              /\ urlTempfiles = {}
              /\ (Succeeded(log, "download_and_extract") /\ Succeeded(log, "rmtree"))
                    => tmpDir = <<>>
        /\ ~Called(log, "download_and_extract") =>
              /\ result.raised \in {"TypeError", "KeyError"}
              /\ log = <<>>

\* update() raised in step 4 and the cleanup took the directory and the cache away
C1_Witness ==
    /\ Updated
    /\ result.raised = "ReplaceError"
    /\ Succeeded(log, "rmtree")
    /\ Called(log, "urlcleanup")
    /\ tmpDir = <<>>
    /\ urlTempfiles = {}

----------------------------------------------------------------------------
(* C2 *)

\* C2 as stated: without an earlier get_latest_version() that returned, update()
\* raises and has called none of download_and_extract, write_metadata and
\* replace_package.
C2_NeedsSuccessfulQuery ==
    (Updated /\ ~everSucceeded) =>
        /\ result.raised /= "none"
        /\ ~Called(log, "download_and_extract")
        /\ ~Called(log, "write_metadata")
        /\ ~Called(log, "replace_package")

\* C2 amended: update() downloads only if an earlier get_latest_version() stored a
\* response, which one that raised for a missing tag_name has done too; it writes
\* metadata or replaces the package only if an earlier call returned; without a
\* call that returned it raises, and without a stored response it calls nothing.
C2_NeedsStoredPayload ==
    Updated =>
        /\ Called(log, "download_and_extract") => everCached
        /\ (Called(log, "write_metadata") \/ Called(log, "replace_package"))
              => everSucceeded
        /\ ~everSucceeded => result.raised /= "none"
        /\ ~everCached => log = <<>>

\* only a get_latest_version() that raised came before, and update() downloaded
C2_Witness ==
    /\ Updated
    /\ everCached
    /\ ~everSucceeded
    /\ Succeeded(log, "download_and_extract")
    /\ result.raised = "KeyError"

----------------------------------------------------------------------------
(* C3 *)

\* C3: the calls of an update() that got past the choice of the url are the first k
\* of download_and_extract, find_archive_root, write_metadata, replace_package, in
\* that order, then the cleanup; every one before the k-th succeeded; when the
\* k-th failed its error is what update() raises; so replace_package is called only
\* after a write_metadata that succeeded, and write_metadata only after the
\* download and the root were found.
C3_StepOrder ==
    (Updated /\ log /= <<>>) =>
        \E k \in 1..4 :
            /\ Len(log) = k + 2
            /\ \A i \in 1..k : log[i].call = StepCalls[i]
            /\ \A i \in 1..(k - 1) : log[i].ok
            /\ log[k + 1].call = "rmtree"
            /\ log[k + 2].call = "urlcleanup"
            /\ ~log[k].ok => result.raised \in StepErrors[k]
            /\ (log[k].ok /\ k < 4) => (k = 2 /\ result.raised = "KeyError")
            /\ (log[k].ok /\ k = 4) => result.raised = "none"

\* the metadata write failed: nothing was replaced, the cleanup ran, the error is raised
C3_Witness ==
    /\ Updated
    /\ Len(log) = 5
    /\ Failed(log, "write_metadata")
    /\ ~Called(log, "replace_package")
    /\ log[5].call = "urlcleanup"
    /\ result.raised = "WriteError"

----------------------------------------------------------------------------
(* C4 *)

\* the record the last update() call wrote is on disk, in the temporary package
\* root or in the project directory
WrittenPersisted ==
    /\ written /= <<>>
    /\ \/ tmpDir /= <<>> /\ tmpDir[1].metadata = written
       \/ projDir.metadata = written

\* C4 as stated: after an update() that raised in replace_package, the record that
\* call wrote is still on disk.
C4_MetadataPersists ==
    (Updated /\ result.raised = "ReplaceError") => WrittenPersisted

\* C4 amended: an update() that raises in replace_package after its metadata write
\* succeeded leaves the directory at the project path, with its metadata record,
\* as it was; the record was written into the package root inside the temporary
\* directory and nothing takes it back, so after update() it is on disk exactly
\* when the removal of that directory failed.
C4_WriteStaysInTemporaryRoot ==
    [][(lastCall' = "update" /\ result'.raised = "ReplaceError") =>
          /\ projDir' = projDir
          /\ Succeeded(log', "write_metadata")
          /\ written' /= <<>>
          /\ written'[1].third_party.version = data.tag_name
          /\ IF Succeeded(log', "rmtree")
             THEN tmpDir' = <<>>
             ELSE tmpDir' /= <<>> /\ tmpDir'[1].metadata = written']_vars

\* replace_package failed in the first update() of an updater: the project keeps
\* the supplied record and the written one went with the temporary directory
C4_Witness ==
    /\ Updated
    /\ result.raised = "ReplaceError"
    /\ Succeeded(log, "write_metadata")
    /\ written /= <<>>
    /\ written[1].third_party.version = T_2
    /\ tmpDir = <<>>
    /\ projDir = ProjDir0(supplied)

----------------------------------------------------------------------------
(* C5 *)

\* the removal of the temporary directory or of a temporary download failed
CleanupFailed == Failed(log, "rmtree") \/ Failed(log, "urlcleanup")

\* C5: when the rmtree or the urlcleanup of an update() call failed, which includes
\* the rmtree of a directory that was never made, update() still returns normally if
\* its four steps succeeded, and otherwise raises the error of the step that failed.
C5_CleanupFailureSwallowed ==
    (Updated /\ CleanupFailed) =>
        /\ Called(log, "rmtree") /\ Called(log, "urlcleanup")
        /\ Succeeded(log, "replace_package") => result.raised = "none"
        /\ \A k \in 1..4 : Failed(log, StepCalls[k]) => result.raised \in StepErrors[k]
        /\ result.raised \in
              {"none", "KeyError"} \cup StepErrors[1] \cup StepErrors[2]
                  \cup StepErrors[3] \cup StepErrors[4]

\* the four steps succeeded, the removal of the directory failed, update() returned
C5_Witness ==
    /\ Updated
    /\ Succeeded(log, "replace_package")
    /\ Failed(log, "rmtree")
    /\ tmpDir /= <<>>
    /\ result.raised = "none"

----------------------------------------------------------------------------
(* C9 *)

\* C9: the caller's metadata record is at every moment what was supplied, and
\* get_current_version() returns the supplied version.
C9_SuppliedRecordUntouched ==
    /\ metadata = supplied
    /\ lastCall = "get_current_version" =>
          result = [raised |-> "none", value |-> supplied.third_party.version]

\* get_current_version() after an update() that replaced the package
C9_Witness ==
    /\ lastCall = "get_current_version"
    /\ projDir.tree /= None
    /\ projDir.metadata /= <<supplied>>
    /\ result.value = V_1_0

----------------------------------------------------------------------------
(* C6 *)

\* the indices of the payload's assets with a supported download url
SupportedAt(d) ==
    {i \in DOMAIN d.assets : is_supported_archive(d.assets[i].browser_download_url)}

\* C6: with a supported asset in the payload, update() downloads the url of a
\* supported asset that no supported asset is smaller than and that no earlier
\* supported asset is as small as.
C6_SmallestSupportedFirst ==
    (Updated /\ SupportedAt(data) /= {}) =>
        /\ Called(log, "download_and_extract")
        /\ \E i \in SupportedAt(data) :
              /\ latest_url = data.assets[i].browser_download_url
              /\ \A j \in SupportedAt(data) : data.assets[i].size <= data.assets[j].size
              /\ \A j \in SupportedAt(data) :
                    j < i => data.assets[j].size > data.assets[i].size

\* two supported assets of one size: the first is downloaded
C6_Witness ==
    /\ Updated
    /\ data.assets = <<[browser_download_url |-> B_tgz, size |-> 1],
                       [browser_download_url |-> A_zip, size |-> 1]>>
    /\ latest_url = B_tgz
    /\ Called(log, "download_and_extract")

\* an unsupported asset smaller than the supported one: the supported one is downloaded
C6_WitnessUnsupported ==
    /\ Updated
    /\ data.assets = <<[browser_download_url |-> C_exe, size |-> 1],
                       [browser_download_url |-> A_zip, size |-> 2]>>
    /\ latest_url = A_zip

----------------------------------------------------------------------------
(* C7 *)

\* https://github.com/<owner>/<repo>/archive/<tag>.tar.gz
TarballUrl(o, r, tag) ==
    <<"h", "t", "t", "p", "s", ":", "/", "/", "g", "i", "t", "h", "u", "b", ".",
      "c", "o", "m", "/">> \o o \o <<"/">> \o r
        \o <<"/", "a", "r", "c", "h", "i", "v", "e", "/">> \o tag
        \o <<".", "t", "a", "r", ".", "g", "z">>

\* C7: for a payload with a tag and an asset list, update() downloads the source
\* tarball url of the updater's owner and repo and the payload's tag exactly when no
\* asset of the list is supported.
C7_TarballIffNoSupportedAsset ==
    (Updated /\ data.kind = "dict" /\ data.keys = {"tag_name", "assets"}) =>
        /\ Called(log, "download_and_extract")
        /\ (latest_url = TarballUrl(owner, repo, data.tag_name))
              <=> (SupportedAt(data) = {})

\* a release with an unsupported asset only, for the updater of o-1/r_2
C7_Witness ==
    /\ Updated
    /\ data.keys = {"tag_name", "assets"}
    /\ data.assets = <<[browser_download_url |-> C_exe, size |-> 1]>>
    /\ latest_url =
          <<"h", "t", "t", "p", "s", ":", "/", "/", "g", "i", "t", "h", "u", "b", ".",
            "c", "o", "m", "/", "o", "-", "1", "/", "r", "_", "2", "/", "a", "r", "c",
            "h", "i", "v", "e", "/", "2", ".", "t", "a", "r", ".", "g", "z">>

----------------------------------------------------------------------------
(* C8 *)

\* the record w is the record m with the version tag and with the urls as rewrite
\* gives them
RecordRewritten(w, m, tag, rewrite(_)) ==
    /\ w.name = m.name
    /\ w.third_party.version = tag
    /\ DOMAIN w.third_party.url = DOMAIN m.third_party.url
    /\ \A i \in DOMAIN m.third_party.url :
          w.third_party.url[i] = rewrite(m.third_party.url[i])

\* C8 as stated: one entry of the supplied record has the value of the url given to
\* the updater, and the written record is the supplied one with the payload's tag as
\* its version and with the selected url as the value of the entries of that value.
C8_OneEntryByValue ==
    (Updated /\ written /= <<>>) =>
        /\ Cardinality({i \in DOMAIN supplied.third_party.url :
                          supplied.third_party.url[i].value = old_url.value}) = 1
        /\ RecordRewritten(written[1], supplied, data.tag_name,
              LAMBDA e : IF e.value = old_url.value
                         THEN [type |-> e.type, value |-> latest_url] ELSE e)

\* C8 amended: the written record is the supplied one with the payload's tag as its
\* version and with the selected url, the one that was downloaded, as the value of
\* every entry that has both the type and the value of the url given to the updater;
\* an entry of that value and another type is unchanged, as are the other entries,
\* the types, the order and the other fields.
C8_EveryEqualEntry ==
    (Updated /\ written /= <<>>) =>
        /\ RecordRewritten(written[1], supplied, data.tag_name,
              LAMBDA e : IF e.value = old_url.value /\ e.type = old_url.type
                         THEN [type |-> e.type, value |-> latest_url] ELSE e)
        /\ Succeeded(log, "download_and_extract")
        /\ result.raised = "none" =>
              projDir = [tree |-> latest_url, metadata |-> written]

\* a record with the url twice and a record with its value under another type
C8_Witness ==
    /\ Updated
    /\ result.raised = "none"
    /\ Len(supplied.third_party.url) = 2
    /\ supplied.third_party.url[1].value = supplied.third_party.url[2].value
    /\ supplied.third_party.url[1].type /= supplied.third_party.url[2].type
    /\ \E i \in 1..2 :
          /\ written[1].third_party.url[i].value = latest_url
          /\ written[1].third_party.url[3 - i] = supplied.third_party.url[3 - i]
    /\ latest_url /= old_url.value

----------------------------------------------------------------------------
(* C10 *)

\* the <<owner, repo>> for which value starts with https://github.com/, the owner,
\* a slash, the repo, a slash and releases/download/ or archive/, owner and repo being
\* non-empty runs of word characters and hyphens
IdentitiesOf(value) ==
    LET h == <<"h", "t", "t", "p", "s", ":", "/", "/", "g", "i", "t", "h", "u", "b",
               ".", "c", "o", "m", "/">>
        n == Len(h)
    IN  {<<Slice(value, n + 1, i - 1), Slice(value, i + 1, j - 1)>> :
            <<i, j>> \in {p \in (1..Len(value)) \X (1..Len(value)) :
                /\ LitAt(value, 1, h)
                /\ n + 1 < p[1] /\ p[1] + 1 < p[2]
                /\ value[p[1]] = "/" /\ value[p[2]] = "/"
                /\ \A k \in ((n + 1)..(p[1] - 1)) \cup ((p[1] + 1)..(p[2] - 1)) :
                      InClass(value[k])
                /\ \/ LitAt(value, p[2] + 1,
                            <<"r", "e", "l", "e", "a", "s", "e", "s", "/", "d", "o", "w",
                              "n", "l", "o", "a", "d", "/">>)
                   \/ LitAt(value, p[2] + 1, <<"a", "r", "c", "h", "i", "v", "e", "/">>)}}

\* C10: construction raises the invalid-kind error for a url that is no archive,
\* the unsupported-format error for an archive url whose value has not the GitHub
\* shape, and otherwise succeeds with the owner and repo of the value, which stay.
C10_ParseOutcome ==
    state /= "new" =>
        IF url.type /= ARCHIVE
        THEN /\ state = "failed"
             /\ result.raised = "ValueError: Only archive url from Github is supported."
        ELSE IF IdentitiesOf(url.value) = {}
        THEN /\ state = "failed"
             /\ result.raised = "ValueError: Url format is not supported."
        ELSE /\ state = "ready"
             /\ <<owner, repo>> \in IdentitiesOf(url.value)

====
